---- MODULE Spec2Model ----
(***************************************************************************)
(* pdf-mass-unlock: the credential sequencer (passwords.py), the backup    *)
(* manager and atomic writer (io_utils.py), the per-file unlock            *)
(* orchestrator (unlocker.py), the scanner (scanner.py) and the command    *)
(* line (cli.py: main and process_pdfs), modelled as state machines.       *)
(*                                                                         *)
(* A secret is a tuple of characters.  An optional value (Python's None or *)
(* a value) is a tuple of length 0 or 1: None == <<>>, Some(x) == <<x>>.   *)
(* File content is a record [kind, key, gen]; two contents are the same    *)
(* bytes iff the records are equal.                                        *)
(***************************************************************************)
EXTENDS Naturals, Sequences, FiniteSets, TLC

VARIABLES
    \* ---- credential sequencer (passwords.py) ----
    pwIn,        \* the arguments of iter_passwords: [single, dict, env, try_empty]
    pwOut,       \* the list the generator produced for pwIn (None until it ran)
    \* ---- filesystem, as seen from one working file ----
    file,        \* content at the working file's path
    bdir,        \* <parent>/<backup_dir_name>: "absent", "dir" or "notdir"
    parentW,     \* os.access(parent, W_OK)
    bdirW,       \* os.access(backup_dir, W_OK)
    backup,      \* content at <parent>/<backup_dir_name>/<name>
    probe,       \* the "<name>.tmp_test" probe file exists
    tmp,         \* content of the NamedTemporaryFile of the current atomic_write
    strays,      \* temporary files left in the directory by earlier invocations
    \* ---- the arguments of one invocation ----
    mode,        \* "unlock" (unlock_file), "dry" (try_unlock_dry_run) or
                 \* "aw" (atomic_write called on its own)
    passwords,   \* the credential sequence handed to the invocation: the pairs
                 \* its iteration yields
    iterRaises,  \* the iteration raises, instead of ending, after the last pair
    runs,        \* number of invocations on this file so far, this one included
    \* ---- the command line (cli.py) ----
    batch,       \* process_pdfs: its file list, counters and outcomes so far
    scan,        \* main: the scanned tree, the options and the files found
    conc,        \* two workers on two files of one directory, and that directory
    \* ---- the invocation's locals ----
    pc,          \* position in the code
    drawn,       \* number of candidates drawn from the sequence so far
    tried,       \* the open attempts of the trial loop: <<password, outcome>>, in order
    newData,     \* what the producer writes through atomic_write
    result,      \* the UnlockResult returned (None until the invocation returns)
    \* ---- history of the invocation, used only to state properties ----
    raised,      \* the operation that raised an error other than wrong-password
    fs0,         \* the filesystem when the invocation started
    replaced,    \* number of completed os.replace calls over the working path
    classified,  \* outcome of the classification open ("none" before it ran)
    orig,        \* content of the working file before the first invocation on it
    prev         \* how the previous invocation on this file went

pwVars == <<pwIn, pwOut>>
fsVars == <<file, bdir, parentW, bdirW, backup, probe, tmp, strays>>
argVars == <<mode, passwords, iterRaises, runs, batch, scan, conc>>
loopVars == <<drawn, tried, newData>>
histVars == <<fs0, replaced, classified, orig, prev>>

\* the filesystem entries an invocation can change
Snapshot == [file |-> file, bdir |-> bdir, backup |-> backup, probe |-> probe,
             tmp |-> tmp, strays |-> strays]
file0 == fs0.file
backup0 == fs0.backup
bdir0 == fs0.bdir
vars == <<pwVars, fsVars, argVars, loopVars, pc, result, raised, histVars>>

None == <<>>
Some(x) == <<x>>

(***************************************************************************)
(* Bounds                                                                  *)
(***************************************************************************)
MaxLines == 2        \* lines of a wordlist file
MaxPwLines == 2      \* lines of the wordlists the orchestrator's sequences come from
MaxRuns == 2         \* invocations on the same file, one after the other

(***************************************************************************)
(* Credential sequencer                                                    *)
(***************************************************************************)
\* Characters: "a", "b" ordinary; " " the space; "#" the comment mark;
\* "N" a no-break space (U+00A0) and "A" a fullwidth letter (U+FF41), the two
\* characters here that NFKC changes; "\n" and "\r" the line terminators.
Whitespace == {" ", "N"}
Terminators == {"\n", "\r"}

\* unicodedata.normalize("NFKC", .) on one character
NFKCChar(c) == IF c = "N" THEN " " ELSE IF c = "A" THEN "a" ELSE c

NFKC(s) == [i \in 1..Len(s) |-> NFKCChar(s[i])]

RECURSIVE rstrip(_, _)
\* str.rstrip(chars): drop every trailing character that is in chars
rstrip(s, chars) ==
    IF s # <<>> /\ s[Len(s)] \in chars THEN rstrip(SubSeq(s, 1, Len(s) - 1), chars) ELSE s

RECURSIVE lstrip(_)
\* str.lstrip(): drop every leading whitespace character
lstrip(s) == IF s # <<>> /\ s[1] \in Whitespace THEN lstrip(Tail(s)) ELSE s

\* str.strip()
strip(s) == lstrip(rstrip(s, Whitespace))

startswith(s, c) == s # <<>> /\ s[1] = c

\* The password of one raw line (terminator included) as the loop body of
\* _iter_from_dictionary computes it, and whether the line is skipped.
LinePassword(line) == NFKC(rstrip(line, Terminators))

LineSkipped(line) ==
    \/ strip(LinePassword(line)) = <<>>
    \/ startswith(lstrip(LinePassword(line)), "#")

RECURSIVE iter_from_dictionary(_)
\* _iter_from_dictionary: the passwords yielded for the raw lines of the file
iter_from_dictionary(lines) ==
    IF lines = <<>> THEN <<>>
    ELSE IF LineSkipped(Head(lines)) THEN iter_from_dictionary(Tail(lines))
    ELSE <<LinePassword(Head(lines))>> \o iter_from_dictionary(Tail(lines))

\* Mutant of Emit: the "not in seen" test is dropped
EmitNoDedup(st, password, source) ==
    [seen |-> st.seen \cup {password}, out |-> Append(st.out, <<password, source>>)]

\* One "if password not in seen: seen.add(password); yield (password, source)"
\* st is [seen, out]
Emit(st, password, source) ==
    IF password \in st.seen THEN st
    ELSE [seen |-> st.seen \cup {password}, out |-> Append(st.out, <<password, source>>)]

RECURSIVE EmitAll(_, _, _)
EmitAll(st, pws, source) ==
    IF pws = <<>> THEN st ELSE EmitAll(Emit(st, Head(pws), source), Tail(pws), source)

\* 1. single password from the CLI: "if single is not None and single not in seen"
StageSingle(st, single) == IF single # None THEN Emit(st, single[1], "single") ELSE st

\* 2. dictionary file: "if dictionary_path and dictionary_path.exists()"
StageDictionary(st, dict) ==
    IF dict # None THEN EmitAll(st, iter_from_dictionary(dict[1]), "dictionary") ELSE st

\* Mutant of StageEnvironment: a variable set to the empty string is taken as
\* a candidate ("if env_password is not None")
StageEnvironmentTakesEmpty(st, env) ==
    IF env # None THEN Emit(st, env[1], "environment") ELSE st

\* 3. environment: "if env_password and env_password not in seen"
StageEnvironment(st, env) ==
    IF env # None /\ env[1] # <<>> THEN Emit(st, env[1], "environment") ELSE st

\* 4. empty password: "if try_empty and '' not in seen"
StageEmpty(st, try_empty) == IF try_empty THEN Emit(st, <<>>, "empty") ELSE st

\* iter_passwords, as the list of the (password, source) pairs it yields
iter_passwords(single, dict, env, try_empty) ==
    StageEmpty(
        StageEnvironment(
            StageDictionary(
                StageSingle([seen |-> {}, out |-> <<>>], single),
                dict),
            env),
        try_empty).out

\* Wordlist line contents (without terminator) the sequencer is exercised on
LineTexts ==
    { <<>>, <<"a">>, <<"b">>, <<" ">>, <<" ", "a">>, <<"a", " ">>,
      <<"#", "a">>, <<" ", "#">>, <<"N">>, <<"N", "a">>, <<"A">> }

RawLines == { t \o <<"\n">> : t \in LineTexts }

SeqsUpTo(S, n) == UNION { [1..k -> S] : k \in 0..n }

DictFiles == SeqsUpTo(RawLines, MaxLines)

SecretChoices == { <<>>, <<"a">>, <<"b">>, <<" ">>, <<"A">> }

OptSecrets == {None} \cup { Some(s) : s \in SecretChoices }

PwInputs ==
    [ single : OptSecrets,
      dict : {None} \cup { Some(d) : d \in DictFiles },
      env : OptSecrets,
      try_empty : BOOLEAN ]


\* The sequences the orchestrator is run with: what the CLI's password factory
\* (iter_passwords) yields for a few inputs over the secrets "a" and "b"
OrchLines == { <<"a", "\n">>, <<"b", "\n">> }

FactorySeqs ==
    { iter_passwords(s, d, e, t) :
        s \in {None, Some(<<"a">>)},
        d \in {None} \cup { Some(f) : f \in SeqsUpTo(OrchLines, MaxPwLines) },
        e \in {None, Some(<<"b">>)},
        t \in BOOLEAN }

\* unlock_file takes any iterable of pairs: two lists as a caller may write them
\* (tests/test_unlocker.py), out of priority order and with a repeated secret
CallerSeqs ==
    { << <<<<>>, "empty">>, <<<<"a">>, "dictionary">> >>,
      << <<<<"b">>, "dictionary">>, <<<<"b">>, "single">>, <<<<"a">>, "environment">> >> }

PwSeqs == FactorySeqs \cup CallerSeqs

(***************************************************************************)
(* Documents and the document capability (pikepdf)                         *)
(***************************************************************************)
Content(kind, key, gen) == [kind |-> kind, key |-> key, gen |-> gen]

Missing == Content("missing", <<>>, 0)     \* no file at the path
Empty == Content("empty", <<>>, 0)         \* a file of zero bytes
Partial == Content("partial", <<>>, 0)     \* a prefix of some intended content
Plain == Content("plain", <<>>, 0)         \* a PDF that was never protected
Corrupt == Content("corrupt", <<>>, 0)     \* not a parseable PDF
Enc(k) == Content("enc", k, 0)             \* a PDF protected with password k

Keys == { <<"a">>, <<"b">> }

\* pikepdf.open(path, password=pw) on content c when no I/O fault occurs.
\* pikepdf.open(path) is pikepdf.open(path, password="").
PdfOpen(c, pw) ==
    IF c.kind = "plain" THEN "ok"
    ELSE IF c.kind = "enc" THEN (IF pw = c.key THEN "ok" ELSE "password")
    ELSE "error"

\* What one call of pikepdf.open can do: the above, or fail with an I/O fault
OpenOutcomes(c, pw) == { PdfOpen(c, pw), "error" }

\* Mutant of Save: the document is saved with its encryption kept
SaveKeepsEncryption(c) == Content(c.kind, c.key, c.gen + 1)

\* pdf_file.save(f): the document re-serialised without protection
Save(c) == Content("plain", c.key, c.gen + 1)

\* Mutant of is_pdf_encrypted: only the wrong-password signal counts as
\* protected, any other error as not protected
is_pdf_encrypted_password_only(outcome) == outcome = "password"

\* Mutant of is_pdf_encrypted: every file is reported as protected
is_pdf_encrypted_always(outcome) == TRUE

\* is_pdf_encrypted, from the outcome of its pikepdf.open(filepath)
is_pdf_encrypted(outcome) == outcome # "ok"

(***************************************************************************)
(* UnlockResult                                                            *)
(***************************************************************************)
\* error is <<prefix, cause>>: the fixed prefix of error_message and the
\* operation whose exception text follows it
UnlockResult(status, method, error) ==
    Some([status |-> status, method_used |-> method, error |-> error])

NoError == <<"none", "none">>
ResUnchanged == UnlockResult("UNCHANGED", "already_unlocked", NoError)
ResUnlocked(source) == UnlockResult("UNLOCKED", source, NoError)
ResFailed(prefix, cause) == UnlockResult("FAILED", "none", <<prefix, cause>>)

Returned == result # None
Status == IF Returned THEN result[1].status ELSE "none"
ErrorOf == IF Returned THEN result[1].error ELSE NoError

\* return an UnlockResult: the invocation ends
Return(r) == result' = r /\ pc' = "done"

\* go on to the statement at label l
Goto(l) == pc' = l /\ result' = result

(***************************************************************************)
(* unlock_file / try_unlock_dry_run: classification                        *)
(***************************************************************************)
\* Mutant of Classify: a protected file goes straight to the trial loop
ClassifySkipsBackup ==
    /\ pc = "classify"
    /\ \E o \in OpenOutcomes(file, <<>>) :
        /\ classified' = o
        /\ IF ~is_pdf_encrypted(o) THEN Return(ResUnchanged) ELSE Goto("loop")
    /\ UNCHANGED <<pwVars, fsVars, argVars, loopVars, raised>>
    /\ UNCHANGED <<fs0, replaced, orig, prev>>

\* unlocker.py 83-94 and 156-167
Classify ==
    /\ pc = "classify"
    /\ \E o \in OpenOutcomes(file, <<>>) :
        /\ classified' = o
        /\ IF ~is_pdf_encrypted(o)
           THEN Return(ResUnchanged)
           ELSE Goto(IF mode = "unlock" THEN "v_mkdir" ELSE "dry_validate")
    /\ UNCHANGED <<pwVars, fsVars, argVars, loopVars, raised>>
    /\ UNCHANGED <<fs0, replaced, orig, prev>>

\* Mutant of ClassifyRaises: the exception of the classification is swallowed
\* and the file is taken as protected
ClassifyRaisesTakenAsProtected ==
    /\ pc = "classify"
    /\ raised' = "classify"
    /\ Goto(IF mode = "unlock" THEN "v_mkdir" ELSE "dry_validate")
    /\ UNCHANGED <<pwVars, fsVars, argVars, loopVars, histVars>>

\* unlocker.py 89-94 and 162-167: the "except Exception" around the call of
\* is_pdf_encrypted.  The function shipped catches every Exception itself, so
\* this step exists only where the name is_pdf_encrypted is bound to a callable
\* that raises (tests/test_coverage.py 247-284 patch it so)
ClassifyRaises ==
    /\ pc = "classify"
    /\ raised' = "classify"
    /\ Return(ResFailed("Error checking if PDF is encrypted", "classify"))
    /\ UNCHANGED <<pwVars, fsVars, argVars, loopVars, histVars>>

(***************************************************************************)
(* Backup manager (io_utils.py)                                            *)
(***************************************************************************)
\* backup_dir.mkdir(exist_ok=True): [ok, bdir, bdirW] after the call
Mkdir(d, pw, dw) ==
    IF d = "dir" THEN [ok |-> TRUE, bdir |-> d, bdirW |-> dw]
    ELSE IF d = "absent" /\ pw THEN [ok |-> TRUE, bdir |-> "dir", bdirW |-> TRUE]
    ELSE [ok |-> FALSE, bdir |-> d, bdirW |-> dw]

\* Mutant of BackupFailed: the exception of the backup step is swallowed and
\* the trial loop is entered
BackupFailureIgnored(op) == raised' = op /\ Goto("loop")

\* unlock_file 103-108 (try_unlock_dry_run 172-177): the except clause around
\* the backup step, entered when operation op raised
BackupFailed(op) == raised' = op /\ Return(ResFailed("Failed to create backup", op))

\* validate_backup_path: ensure_backup(src, backup_dir_name)
ValidateMkdir ==
    /\ pc = "v_mkdir"
    /\ LET m == Mkdir(bdir, parentW, bdirW) IN
        /\ bdir' = m.bdir
        /\ bdirW' = m.bdirW
        /\ IF m.ok THEN Goto("v_touch") /\ raised' = raised ELSE BackupFailed("mkdir")
    /\ UNCHANGED <<pwVars, file, parentW, backup, probe, tmp, strays>>
    /\ UNCHANGED <<argVars, loopVars, histVars>>

\* validate_backup_path: test_path.touch()
ValidateTouch ==
    /\ pc = "v_touch"
    /\ IF bdirW
       THEN probe' = TRUE /\ Goto("v_unlink") /\ raised' = raised
       ELSE probe' = probe /\ BackupFailed("touch")
    /\ UNCHANGED <<pwVars, file, bdir, parentW, bdirW, backup, tmp, strays>>
    /\ UNCHANGED <<argVars, loopVars, histVars>>

\* validate_backup_path: test_path.unlink(), which removes the probe or raises
ValidateUnlink ==
    /\ pc = "v_unlink"
    /\ \/ probe' = FALSE /\ Goto("c_copy") /\ raised' = raised
       \/ probe' = probe /\ BackupFailed("unlink")
    /\ UNCHANGED <<pwVars, file, bdir, parentW, bdirW, backup, tmp, strays>>
    /\ UNCHANGED <<argVars, loopVars, histVars>>

\* Mutant of CopyBackup: the backup step validates but never copies
CopyBackupSkipped ==
    /\ pc = "c_copy"
    /\ Goto("loop")
    /\ UNCHANGED <<pwVars, fsVars, argVars, loopVars, raised, histVars>>

\* copy_backup: ensure_backup, then shutil.copy2(src, backup_path).  copy2 opens
\* the source first (a missing source raises before the destination is touched),
\* then truncates the destination and writes; a fault part-way leaves a prefix.
CopyBackup ==
    /\ pc = "c_copy"
    /\ LET m == Mkdir(bdir, parentW, bdirW) IN
        /\ bdir' = m.bdir
        /\ bdirW' = m.bdirW
        /\ IF ~m.ok
           THEN backup' = backup /\ BackupFailed("mkdir")
           ELSE IF file = Missing
           THEN backup' = backup /\ BackupFailed("copy")
           ELSE \/ backup' = file /\ Goto("loop") /\ raised' = raised
                \/ backup' = Partial /\ BackupFailed("copy")
    /\ UNCHANGED <<pwVars, file, parentW, probe, tmp, strays>>
    /\ UNCHANGED <<argVars, loopVars, histVars>>

\* Mutant of DryValidate: the simulation calls validate_backup_path, which
\* makes the backup directory
DryValidateCreatesDir ==
    /\ pc = "dry_validate"
    /\ LET m == Mkdir(bdir, parentW, bdirW) IN
        /\ bdir' = m.bdir
        /\ bdirW' = m.bdirW
        /\ IF m.ok /\ m.bdirW
           THEN Goto("loop") /\ raised' = raised
           ELSE BackupFailed("validate")
    /\ UNCHANGED <<pwVars, file, parentW, backup, probe, tmp, strays>>
    /\ UNCHANGED <<argVars, loopVars, histVars>>

\* Mutant of DryValidateOk: the simulation demands that the backup directory
\* already exists
DryValidateOkNeedsDir == bdir = "dir" /\ bdirW

\* validate_backup_path_no_side_effects: only exists() and os.access()
DryValidateOk == IF bdir = "absent" THEN parentW ELSE bdirW

DryValidate ==
    /\ pc = "dry_validate"
    /\ IF DryValidateOk THEN Goto("loop") /\ raised' = raised ELSE BackupFailed("validate")
    /\ UNCHANGED <<pwVars, fsVars, argVars, loopVars, histVars>>

(***************************************************************************)
(* Trial loop (unlocker.py 110-139 and 179-205)                            *)
(***************************************************************************)
Exhausted == drawn = Len(passwords)

\* the (password, source) pair the for loop currently holds
Candidate == passwords[drawn]

\* "for password, source in passwords" ends: no password worked
TrialExhausted ==
    /\ pc = "loop"
    /\ Exhausted
    /\ ~iterRaises
    /\ Return(ResFailed("All passwords failed", "none"))
    /\ UNCHANGED <<pwVars, fsVars, argVars, loopVars, raised, histVars>>

\* "except Exception as e" of the loop body, entered when operation op raised
ProcessingFailed(op) == Return(ResFailed("Error processing PDF with password", op))

\* Mutant of AfterOpen: the loop is left ("break") at the first wrong password
AfterOpenStopsAtFirstWrong(o, source) ==
    IF o = "password" THEN Return(ResFailed("All passwords failed", "none")) /\ raised' = raised
    ELSE IF o = "error" THEN raised' = "open" /\ ProcessingFailed("open")
    ELSE IF mode = "dry" THEN Return(ResUnlocked(source)) /\ raised' = raised
    ELSE Goto("aw_create") /\ raised' = raised

\* Mutant of AfterOpen: PasswordError is caught by the general except clause
AfterOpenWrongIsError(o, source) ==
    IF o \in {"password", "error"}
    THEN raised' = (IF o = "error" THEN "open" ELSE raised) /\ ProcessingFailed("open")
    ELSE IF mode = "dry" THEN Return(ResUnlocked(source)) /\ raised' = raised
    ELSE Goto("aw_create") /\ raised' = raised

\* Mutant of AfterOpen: any exception of the open is handled like
\* PasswordError ("continue")
AfterOpenErrorIsWrong(o, source) ==
    IF o \in {"password", "error"} THEN Goto("loop") /\ raised' = raised
    ELSE IF mode = "dry" THEN Return(ResUnlocked(source)) /\ raised' = raised
    ELSE Goto("aw_create") /\ raised' = raised

\* where the loop goes after pikepdf.open(filepath, password=password) gave
\* outcome o for the candidate of the given source
AfterOpen(o, source) ==
    IF o = "password" THEN Goto("loop") /\ raised' = raised
    ELSE IF o = "error" THEN raised' = "open" /\ ProcessingFailed("open")
    ELSE IF mode = "dry" THEN Return(ResUnlocked(source)) /\ raised' = raised
    ELSE Goto("aw_create") /\ raised' = raised

\* Mutant of TrialOpen: after a wrong password the same candidate is tried again
TrialOpenRetries ==
    /\ pc = "loop"
    /\ ~Exhausted
    /\ LET cand == passwords[drawn + 1] IN
        \E o \in OpenOutcomes(file, cand[1]) :
            /\ drawn' = IF o = "password" THEN drawn ELSE drawn + 1
            /\ tried' = Append(tried, <<cand[1], o>>)
            /\ AfterOpen(o, cand[2])
            /\ newData' = IF o = "ok" /\ mode = "unlock" THEN Save(file) ELSE newData
    /\ UNCHANGED <<pwVars, fsVars, argVars, histVars>>

\* the loop draws the next candidate and opens the file with it
TrialOpen ==
    /\ pc = "loop"
    /\ ~Exhausted
    /\ drawn' = drawn + 1
    /\ LET cand == passwords[drawn + 1] IN
        \E o \in OpenOutcomes(file, cand[1]) :
            /\ tried' = Append(tried, <<cand[1], o>>)
            /\ AfterOpen(o, cand[2])
            /\ newData' = IF o = "ok" /\ mode = "unlock" THEN Save(file) ELSE newData
    /\ UNCHANGED <<pwVars, fsVars, argVars, histVars>>

\* "for password, source in passwords" when producing the next pair raises
\* (the wordlist cannot be read or decoded further): the for statement is
\* outside the try block, so the exception leaves the function
TrialIterRaises ==
    /\ pc = "loop"
    /\ Exhausted
    /\ iterRaises
    /\ raised' = "iterator"
    /\ Goto("escaped")
    /\ UNCHANGED <<pwVars, fsVars, argVars, loopVars, histVars>>

(***************************************************************************)
(* atomic_write (io_utils.py 114-143)                                      *)
(***************************************************************************)
\* the exception of operation op leaves atomic_write
AwRaise(op) == raised' = op /\ Goto("aw_exc")

\* Mutant of AwCleanupAndRaise: the except clause re-raises without the unlink
AwRaiseNoCleanup(op) == tmp' = tmp /\ AwRaise(op)

\* "except: temp_path.unlink(missing_ok=True); raise"
AwCleanupAndRaise(op) == tmp' = Missing /\ AwRaise(op)

\* tempfile.NamedTemporaryFile(mode="wb", dir=filepath.parent, delete=False)
AwCreate ==
    /\ pc = "aw_create"
    /\ IF parentW
       THEN tmp' = Empty /\ Goto("aw_write") /\ raised' = raised
       ELSE tmp' = tmp /\ AwRaise("tmpfile")
    /\ UNCHANGED <<pwVars, file, bdir, parentW, bdirW, backup, probe, strays>>
    /\ UNCHANGED <<argVars, loopVars, histVars>>

\* Mutant of AwProduceChunk: the data is written to the target path itself
AwProduceChunkInPlace ==
    /\ pc = "aw_write"
    /\ tmp = Empty
    /\ tmp' = Partial
    /\ file' = Partial
    /\ UNCHANGED <<pwVars, bdir, parentW, bdirW, backup, probe, strays>>
    /\ UNCHANGED <<argVars, loopVars, pc, result, raised, histVars>>

\* the producer (the body of the with block) writes part of its data
AwProduceChunk ==
    /\ pc = "aw_write"
    /\ tmp = Empty
    /\ tmp' = Partial
    /\ UNCHANGED <<pwVars, file, bdir, parentW, bdirW, backup, probe, strays>>
    /\ UNCHANGED <<argVars, loopVars, pc, result, raised, histVars>>

\* the producer returns, all of its data written
AwProduceDone ==
    /\ pc = "aw_write"
    /\ tmp' = newData
    /\ Goto("aw_flush")
    /\ UNCHANGED <<pwVars, file, bdir, parentW, bdirW, backup, probe, strays>>
    /\ UNCHANGED <<argVars, loopVars, raised, histVars>>

\* the producer raises, before or after writing some data
AwProduceRaise ==
    /\ pc = "aw_write"
    /\ AwCleanupAndRaise(IF tmp = Partial THEN "producer_after_data" ELSE "producer")
    /\ UNCHANGED <<pwVars, file, bdir, parentW, bdirW, backup, probe, strays>>
    /\ UNCHANGED <<argVars, loopVars, histVars>>

\* Mutant of AwFlush: an error of flush is noted but the write goes on
AwFlushErrorIgnored ==
    /\ pc = "aw_flush"
    /\ tmp' = tmp
    /\ Goto("aw_fsync")
    /\ raised' \in {raised, "flush"}
    /\ UNCHANGED <<pwVars, file, bdir, parentW, bdirW, backup, probe, strays>>
    /\ UNCHANGED <<argVars, loopVars, histVars>>

\* tmp_file.flush()
AwFlush ==
    /\ pc = "aw_flush"
    /\ \/ tmp' = tmp /\ Goto("aw_fsync") /\ raised' = raised
       \/ AwCleanupAndRaise("flush")
    /\ UNCHANGED <<pwVars, file, bdir, parentW, bdirW, backup, probe, strays>>
    /\ UNCHANGED <<argVars, loopVars, histVars>>

\* os.fsync(tmp_file.fileno())
AwFsync ==
    /\ pc = "aw_fsync"
    /\ \/ tmp' = tmp /\ Goto("aw_replace") /\ raised' = raised
       \/ AwCleanupAndRaise("fsync")
    /\ UNCHANGED <<pwVars, file, bdir, parentW, bdirW, backup, probe, strays>>
    /\ UNCHANGED <<argVars, loopVars, histVars>>

\* Mutant of AwReplace: an error of os.replace is swallowed and the write is
\* taken as done
AwReplaceErrorIgnored ==
    /\ pc = "aw_replace"
    /\ \/ /\ file' = tmp
          /\ tmp' = Missing
          /\ replaced' = replaced + 1
          /\ Goto("aw_ok")
          /\ raised' = raised
       \/ /\ UNCHANGED <<file, tmp, replaced>>
          /\ raised' = "replace"
          /\ Goto("aw_ok")
    /\ UNCHANGED <<pwVars, bdir, parentW, bdirW, backup, probe, strays>>
    /\ UNCHANGED <<argVars, loopVars>>
    /\ UNCHANGED <<fs0, classified, orig, prev>>

\* os.replace(temp_path, filepath): renames, or raises and changes nothing
AwReplace ==
    /\ pc = "aw_replace"
    /\ \/ /\ file' = tmp
          /\ tmp' = Missing
          /\ replaced' = replaced + 1
          /\ Goto("aw_ok")
          /\ raised' = raised
       \/ /\ UNCHANGED <<file, tmp, replaced>>
          /\ AwRaise("replace")
    /\ UNCHANGED <<pwVars, bdir, parentW, bdirW, backup, probe, strays>>
    /\ UNCHANGED <<argVars, loopVars>>
    /\ UNCHANGED <<fs0, classified, orig, prev>>

\* unlock_file 119-124: both with blocks left without an exception
ReturnUnlocked ==
    /\ pc = "aw_ok"
    /\ mode = "unlock"
    /\ Return(ResUnlocked(Candidate[2]))
    /\ UNCHANGED <<pwVars, fsVars, argVars, loopVars, raised, histVars>>

\* Mutant of ReturnProcessingError: the exception is swallowed and the loop
\* goes on with the next candidate
ContinueAfterError ==
    /\ pc = "aw_exc"
    /\ mode = "unlock"
    /\ Goto("loop")
    /\ UNCHANGED <<pwVars, fsVars, argVars, loopVars, raised, histVars>>

\* unlock_file 128-134: atomic_write raised
ReturnProcessingError ==
    /\ pc = "aw_exc"
    /\ mode = "unlock"
    /\ ProcessingFailed(raised)
    /\ UNCHANGED <<pwVars, fsVars, argVars, loopVars, raised, histVars>>

(***************************************************************************)
(* Running the process again over the same file                            *)
(***************************************************************************)
\* process_pdfs calls unlock_file or try_unlock_dry_run on the file with a
\* fresh sequence from the same password factory.  A temporary file an earlier
\* atomic_write left behind stays in the directory under its own random name.
NewInvocation ==
    /\ pc = "done"
    /\ runs < MaxRuns
    /\ runs' = runs + 1
    /\ mode' \in {"unlock", "dry"}
    /\ pc' = "classify"
    /\ drawn' = 0
    /\ tried' = <<>>
    /\ newData' = Missing
    /\ result' = None
    /\ raised' = "none"
    /\ tmp' = Missing
    /\ strays' = strays + (IF tmp # Missing THEN 1 ELSE 0)
    /\ fs0' = [Snapshot EXCEPT !.tmp = tmp', !.strays = strays']
    /\ replaced' = 0
    /\ classified' = "none"
    /\ prev' = [mode |-> mode, status |-> Status, method_used |-> result[1].method_used,
                classified |-> classified, tried |-> tried, fs0 |-> fs0]
    /\ UNCHANGED <<pwVars, file, bdir, parentW, bdirW, backup, probe>>
    /\ UNCHANGED <<passwords, iterRaises, batch, scan, conc, orig>>

(***************************************************************************)
(* Specifications                                                          *)
(***************************************************************************)
NoPwIn == [single |-> None, dict |-> None, env |-> None, try_empty |-> FALSE]

\* no earlier invocation on the file
NoPrev == [mode |-> "none", status |-> "none", method_used |-> "none",
           classified |-> "none", tried |-> <<>>, fs0 |-> [file |-> Missing]]

\* process_pdfs and main are not running, and no second worker
NoBatch == [n |-> 0]
NoScan == [pc |-> "none"]
NoConc == [n |-> 0]

InitFiles == {Missing, Plain, Corrupt} \cup { Enc(k) : k \in Keys }

InitLocals ==
    /\ drawn = 0
    /\ tried = <<>>
    /\ result = None
    /\ raised = "none"
    /\ fs0 = Snapshot
    /\ replaced = 0
    /\ classified = "none"
    /\ orig = file
    /\ prev = NoPrev

\* no command-line run around the invocation, and a sequence that ends
NoCli ==
    /\ iterRaises = FALSE
    /\ batch = NoBatch
    /\ scan = NoScan
    /\ conc = NoConc

\* The first invocation of unlock_file or try_unlock_dry_run on one file
Init ==
    /\ pwIn = NoPwIn
    /\ pwOut = None
    /\ file \in InitFiles
    /\ bdir \in {"absent", "dir", "notdir"}
    /\ parentW \in BOOLEAN
    /\ bdirW \in (IF bdir = "absent" THEN {FALSE} ELSE BOOLEAN)
    /\ backup = Missing
    /\ probe = FALSE
    /\ tmp = Missing
    /\ strays = 0
    /\ mode \in {"unlock", "dry"}
    /\ passwords \in PwSeqs
    /\ runs = 1
    /\ pc = "classify"
    /\ newData = Missing
    /\ InitLocals
    /\ NoCli

AtomicWrite ==
    \/ AwCreate
    \/ AwProduceChunk
    \/ AwProduceDone
    \/ AwProduceRaise
    \/ AwFlush
    \/ AwFsync
    \/ AwReplace

\* the steps of one invocation of unlock_file or try_unlock_dry_run
Invocation ==
    \/ Classify
    \/ ValidateMkdir
    \/ ValidateTouch
    \/ ValidateUnlink
    \/ CopyBackup
    \/ DryValidate
    \/ TrialExhausted
    \/ TrialOpen
    \/ AtomicWrite
    \/ ReturnUnlocked
    \/ ReturnProcessingError

Next ==
    \/ Invocation
    \/ NewInvocation

Spec == Init /\ [][Next]_vars

\* One invocation run to its end: the code is sequential and every call it
\* makes returns or raises, so a step that can be taken is taken
SpecLive == Init /\ [][Invocation]_vars /\ WF_vars(Invocation)

\* One invocation in which the classification call may also raise
NextPatched ==
    \/ Invocation
    \/ ClassifyRaises

SpecPatched == Init /\ [][NextPatched]_vars

\* atomic_write called on its own, over any target and with any data
AwData == {Empty, Plain, Corrupt, Save(Enc(<<"a">>))}

InitAw ==
    /\ pwIn = NoPwIn
    /\ pwOut = None
    /\ file \in InitFiles \cup {Empty}
    /\ bdir = "absent"
    /\ parentW \in BOOLEAN
    /\ bdirW = FALSE
    /\ backup = Missing
    /\ probe = FALSE
    /\ tmp = Missing
    /\ strays = 0
    /\ mode = "aw"
    /\ passwords = <<>>
    /\ runs = 1
    /\ pc = "aw_create"
    /\ newData \in AwData
    /\ InitLocals
    /\ NoCli

SpecAw == InitAw /\ [][AtomicWrite]_vars

\* iter_passwords run to its end on one combination of arguments
Generate ==
    /\ pwOut = None
    /\ pwOut' = Some(iter_passwords(pwIn.single, pwIn.dict, pwIn.env, pwIn.try_empty))
    /\ UNCHANGED <<pwIn, fsVars, argVars, loopVars, pc, result, raised, histVars>>

InitPw ==
    /\ pwIn \in PwInputs
    /\ pwOut = None
    /\ file = Missing
    /\ bdir = "absent"
    /\ parentW = TRUE
    /\ bdirW = FALSE
    /\ backup = Missing
    /\ probe = FALSE
    /\ tmp = Missing
    /\ strays = 0
    /\ mode = "pw"
    /\ passwords = <<>>
    /\ runs = 1
    /\ pc = "done"
    /\ newData = Missing
    /\ InitLocals
    /\ NoCli

SpecPw == InitPw /\ [][Generate]_vars

(***************************************************************************)
(* password_factory (cli.py 112-138)                                       *)
(***************************************************************************)
\* The --dictionary option: not given, the empty string, a relative path or
\* an absolute one
DictionaryOptions == {None, Some(""), Some("words.txt"), Some("/words.txt")}

IsAbsolute(p) == p = "/words.txt"

\* "Path(dictionary) if dictionary else None"
dictionary_path(in) ==
    IF in.dictionary = None \/ in.dictionary = Some("") THEN None ELSE in.dictionary

\* the file at dictionary_path as given (looked up from the working
\* directory) and the file at path / dictionary_path; None when there is no
\* such file. Joining an absolute path to the scan root gives that path.
FileAsGiven(in) == in.at_cwd
FileAtScanRoot(in) == IF IsAbsolute(dictionary_path(in)[1]) THEN in.at_cwd ELSE in.at_root

\* Mutant of ResolveDictionary: the path is used only as given
ResolveDictionaryAsGivenOnly(in) ==
    IF dictionary_path(in) # None /\ FileAsGiven(in) = None
    THEN [final |-> None, used |-> "none", log |-> "warning"]
    ELSE IF dictionary_path(in) # None
    THEN [final |-> FileAsGiven(in), used |-> "given", log |-> "debug"]
    ELSE [final |-> None, used |-> "none", log |-> "none"]

\* cli.py 116-130: final_dict_path (here the lines of the file it names),
\* which path it is, and what is logged
ResolveDictionary(in) ==
    IF dictionary_path(in) # None /\ FileAsGiven(in) = None
    THEN IF FileAtScanRoot(in) # None
         THEN [final |-> FileAtScanRoot(in), used |-> "scan_root", log |-> "debug"]
         ELSE [final |-> None, used |-> "none", log |-> "warning"]
    ELSE IF dictionary_path(in) # None
    THEN [final |-> FileAsGiven(in), used |-> "given", log |-> "debug"]
    ELSE [final |-> None, used |-> "none", log |-> "none"]

\* password_factory(), and the generator it returns run to its end
PasswordFactory ==
    /\ pwOut = None
    /\ LET r == ResolveDictionary(pwIn) IN
        pwOut' = Some([passwords |-> iter_passwords(pwIn.password, r.final, pwIn.env,
                                                    pwIn.try_empty),
                       used |-> r.used, log |-> r.log])
    /\ UNCHANGED <<pwIn, fsVars, argVars, loopVars, pc, result, raised, histVars>>

\* the wordlist files the factory is exercised on
FactoryFiles ==
    { None, Some(<< <<"a", "\n">> >>), Some(<< <<"b", "\n">>, <<"#", "a", "\n">> >>) }

FactoryInputs ==
    [ dictionary : DictionaryOptions,
      at_cwd : FactoryFiles,
      at_root : FactoryFiles,
      password : {None, Some(<<"a">>), Some(<<>>)},
      env : {None, Some(<<>>), Some(<<"b">>)},
      try_empty : BOOLEAN ]

InitFactory ==
    /\ pwIn \in FactoryInputs
    /\ pwOut = None
    /\ file = Missing
    /\ bdir = "absent"
    /\ parentW = TRUE
    /\ bdirW = FALSE
    /\ backup = Missing
    /\ probe = FALSE
    /\ tmp = Missing
    /\ strays = 0
    /\ mode = "factory"
    /\ passwords = <<>>
    /\ runs = 1
    /\ pc = "done"
    /\ newData = Missing
    /\ InitLocals
    /\ NoCli

SpecFactory == InitFactory /\ [][PasswordFactory]_vars

(***************************************************************************)
(* process_pdfs (cli.py 169-217)                                           *)
(***************************************************************************)
MaxFiles == 2        \* files in the list given to process_pdfs

\* What iterating the generator of password_factory() yields.  When reading
\* the wordlist raises after the lines of in.dict were read, the generator
\* ends there: the environment and empty stages are never reached.
FactorySequence(in, raises) ==
    IF raises THEN iter_passwords(in.single, in.dict, None, FALSE)
    ELSE iter_passwords(in.single, in.dict, in.env, in.try_empty)

\* Mutant of NewIterator: one iterator, made once, is shared by all files
SharedIterator(position) == position

\* "password_iter = password_factory()": a new generator, at its start;
\* position is where the previous file's generator stood
NewIterator(position) == 0

\* "Update counts and log" and "processed += 1" for the file just handled
Tally(b, status) ==
    [b EXCEPT !.unlocked = @ + (IF status = "UNLOCKED" THEN 1 ELSE 0),
              !.unchanged = @ + (IF status = "UNCHANGED" THEN 1 ELSE 0),
              !.failed = @ + (IF status \notin {"UNLOCKED", "UNCHANGED"} THEN 1 ELSE 0),
              !.processed = @ + 1,
              !.outcomes = Append(@, <<b.current, status>>)]

\* the loop of process_pdfs counts the result and goes on to the next file of
\* the list, another file of the same directory
ProcessNext ==
    /\ pc = "done"
    /\ batch.current < batch.n
    /\ batch' = [Tally(batch, Status) EXCEPT !.current = @ + 1, !.calls = @ + 1]
    /\ passwords' = FactorySequence(pwIn, iterRaises)
    /\ drawn' = NewIterator(drawn)
    /\ file' \in InitFiles
    /\ backup' = Missing
    /\ probe' = FALSE
    /\ tmp' = Missing
    /\ strays' = strays + (IF tmp # Missing THEN 1 ELSE 0)
    /\ fs0' = [file |-> file', bdir |-> bdir, backup |-> backup', probe |-> probe',
               tmp |-> tmp', strays |-> strays']
    /\ orig' = file'
    /\ pc' = "classify"
    /\ tried' = <<>>
    /\ newData' = Missing
    /\ result' = None
    /\ raised' = "none"
    /\ replaced' = 0
    /\ classified' = "none"
    /\ UNCHANGED <<pwVars, bdir, parentW, bdirW, mode, iterRaises, runs, scan, conc, prev>>

\* the loop counts the result of the last file and process_pdfs returns
ProcessReturn ==
    /\ pc = "done"
    /\ batch.current = batch.n
    /\ batch' = Tally(batch, Status)
    /\ pc' = "returned"
    /\ UNCHANGED <<pwVars, fsVars, mode, passwords, iterRaises, runs, scan, conc>>
    /\ UNCHANGED <<loopVars, result, raised, histVars>>

\* the options the password factory is built from
BatchDicts ==
    { None, Some(<<>>), Some(<< <<"b", "\n">> >>), Some(<< <<"a", "\n">>, <<"b", "\n">> >>) }

BatchPwInputs ==
    [ single : {None, Some(<<"a">>)},
      dict : BatchDicts,
      env : {None, Some(<<"b">>)},
      try_empty : BOOLEAN ]

\* process_pdfs called on a list of 1..MaxFiles files, about to handle the first
InitBatch ==
    /\ pwIn \in BatchPwInputs
    /\ pwOut = None
    /\ iterRaises \in (IF pwIn.dict = None THEN {FALSE} ELSE BOOLEAN)
    /\ passwords = FactorySequence(pwIn, iterRaises)
    /\ file \in InitFiles
    /\ bdir \in {"absent", "dir", "notdir"}
    /\ parentW \in BOOLEAN
    /\ bdirW \in (IF bdir = "absent" THEN {FALSE} ELSE BOOLEAN)
    /\ backup = Missing
    /\ probe = FALSE
    /\ tmp = Missing
    /\ strays = 0
    /\ mode \in {"unlock", "dry"}
    /\ runs = 1
    /\ \E n \in 1..MaxFiles :
        batch = [n |-> n, current |-> 1, calls |-> 1, outcomes |-> <<>>,
                 processed |-> 0, unlocked |-> 0, failed |-> 0, unchanged |-> 0,
                 exit_code |-> None]
    /\ scan = NoScan
    /\ conc = NoConc
    /\ pc = "classify"
    /\ newData = Missing
    /\ InitLocals

\* main 146-157: process_pdfs returned; "exit_code = 0 if failed == 0 else 1",
\* "raise typer.Exit(code=exit_code)"
MainExit ==
    /\ pc = "returned"
    /\ batch' = [batch EXCEPT !.exit_code = Some(IF batch.failed = 0 THEN 0 ELSE 1)]
    /\ pc' = "exited"
    /\ UNCHANGED <<pwVars, fsVars, mode, passwords, iterRaises, runs, scan, conc>>
    /\ UNCHANGED <<loopVars, result, raised, histVars>>

\* main 146-148: the exception that left process_pdfs is caught nowhere in
\* main; the interpreter ends the process with a traceback and status 1
MainCrash ==
    /\ pc = "escaped"
    /\ batch' = [batch EXCEPT !.exit_code = Some(1)]
    /\ pc' = "crashed"
    /\ UNCHANGED <<pwVars, fsVars, mode, passwords, iterRaises, runs, scan, conc>>
    /\ UNCHANGED <<loopVars, result, raised, histVars>>

NextBatch ==
    \/ Invocation
    \/ TrialIterRaises
    \/ ProcessNext
    \/ ProcessReturn
    \/ MainExit
    \/ MainCrash

SpecBatch == InitBatch /\ [][NextBatch]_vars

(***************************************************************************)
(* The scanner (scanner.py) and main (cli.py 96-148)                       *)
(***************************************************************************)
MaxEntries == 2      \* entries of the scanned root directory

\* A directory listing is the sequence of its entries in iterdir() order.  An
\* entry is [kind, name, items]: kind "dir" (is_dir), "file" (is_file) or
\* "other" (neither, e.g. a dangling link); items is the listing of a directory.
File(name) == [kind |-> "file", name |-> name, items |-> <<>>]
Other(name) == [kind |-> "other", name |-> name, items |-> <<>>]
Dir(name, items) == [kind |-> "dir", name |-> name, items |-> items]

\* Path.suffix of the names used here
Suffix(name) ==
    CASE name = "a.pdf" -> ".pdf"
      [] name = "b.PDF" -> ".PDF"
      [] name = "c.txt" -> ".txt"
      [] OTHER -> ""

\* str.lower() of a suffix
Lower(suffix) == IF suffix = ".PDF" THEN ".pdf" ELSE suffix

DefaultBackupDirName == "pdf_with_password"

RECURSIVE find_pdfs_case_sensitive(_, _, _)
\* Mutant of find_pdfs: the suffix is compared without lower()
find_pdfs_case_sensitive(root, items, backup_dir_name) ==
    IF items = <<>> THEN <<>>
    ELSE LET item == Head(items)
             rest == find_pdfs_case_sensitive(root, Tail(items), backup_dir_name)
         IN IF item.kind = "dir" /\ item.name = backup_dir_name THEN rest
            ELSE IF item.kind = "dir"
            THEN find_pdfs_case_sensitive(Append(root, item.name), item.items,
                                          backup_dir_name) \o rest
            ELSE IF item.kind = "file" /\ Suffix(item.name) = ".pdf"
            THEN <<Append(root, item.name)>> \o rest
            ELSE rest

RECURSIVE find_pdfs(_, _, _)
\* find_pdfs(root, backup_dir_name): the paths it yields, in order, for the
\* listing items of the directory at path root (a path is a tuple of names)
find_pdfs(root, items, backup_dir_name) ==
    IF items = <<>> THEN <<>>
    ELSE LET item == Head(items)
             rest == find_pdfs(root, Tail(items), backup_dir_name)
         IN IF item.kind = "dir" /\ item.name = backup_dir_name THEN rest
            ELSE IF item.kind = "dir"
            THEN find_pdfs(Append(root, item.name), item.items, backup_dir_name) \o rest
            ELSE IF item.kind = "file" /\ Lower(Suffix(item.name)) = ".pdf"
            THEN <<Append(root, item.name)>> \o rest
            ELSE rest

\* "pdf_files = list(find_pdfs(path))", then "if not pdf_files: raise typer.Exit(code=0)"
MainScan ==
    /\ scan.pc = "scan"
    /\ LET found == find_pdfs(<<>>, scan.tree, DefaultBackupDirName) IN
        scan' = [scan EXCEPT !.pdf_files = found,
                             !.pc = IF found = <<>> THEN "exit" ELSE "resolve",
                             !.exit_code = IF found = <<>> THEN Some(0) ELSE @]
    /\ UNCHANGED <<pwVars, fsVars, mode, passwords, iterRaises, runs, batch, conc>>
    /\ UNCHANGED <<loopVars, pc, result, raised, histVars>>

\* "if backup_root is not None: backup_dir_name = backup_root.name"
MainResolveBackupRoot ==
    /\ scan.pc = "resolve"
    /\ scan' = [scan EXCEPT !.backup_dir_name =
                                IF scan.backup_root # None
                                THEN scan.backup_root[1][Len(scan.backup_root[1])]
                                ELSE @,
                            !.pc = "process"]
    /\ UNCHANGED <<pwVars, fsVars, mode, passwords, iterRaises, runs, batch, conc>>
    /\ UNCHANGED <<loopVars, pc, result, raised, histVars>>

\* "process_pdfs(pdf_files, password_factory, backup_dir_name, ...)": the
\* files found are handed to the orchestrator
MainProcess ==
    /\ scan.pc = "process"
    /\ scan' = [scan EXCEPT !.handed = scan.pdf_files, !.pc = "handed"]
    /\ UNCHANGED <<pwVars, fsVars, mode, passwords, iterRaises, runs, batch, conc>>
    /\ UNCHANGED <<loopVars, pc, result, raised, histVars>>

\* the trees main is run on
ScanFiles == { File("a.pdf"), File("b.PDF"), File("c.txt"), Other("a.pdf") }

LeafDirs ==
    { Dir(d, items) : d \in {DefaultBackupDirName, "bk", "sub", "a.pdf"},
                      items \in SeqsUpTo({File("a.pdf"), File("c.txt")}, 1) }

NestingDirs == { Dir("sub", <<d>>) : d \in LeafDirs }

\* the names of a directory's entries are distinct
ValidListing(items) ==
    \A i, j \in 1..Len(items) : i # j => items[i].name # items[j].name

Trees ==
    { t \in SeqsUpTo(ScanFiles \cup LeafDirs \cup NestingDirs, MaxEntries) : ValidListing(t) }

\* --backup-dir-name (its default included) and the deprecated --backup-root
BackupDirNames == {DefaultBackupDirName, "bk"}
BackupRoots == {None, Some(<<"old", "bk">>), Some(<<"old", "archive">>)}

InitCli ==
    /\ pwIn = NoPwIn
    /\ pwOut = None
    /\ file = Missing
    /\ bdir = "absent"
    /\ parentW = TRUE
    /\ bdirW = FALSE
    /\ backup = Missing
    /\ probe = FALSE
    /\ tmp = Missing
    /\ strays = 0
    /\ mode = "cli"
    /\ passwords = <<>>
    /\ iterRaises = FALSE
    /\ runs = 1
    /\ batch = NoBatch
    /\ conc = NoConc
    /\ \E t \in Trees, n \in BackupDirNames, r \in BackupRoots :
        scan = [pc |-> "scan", tree |-> t, backup_dir_name |-> n, backup_root |-> r,
                pdf_files |-> <<>>, handed |-> <<>>, exit_code |-> None]
    /\ pc = "done"
    /\ newData = Missing
    /\ InitLocals

\* find_pdfs called on its own with any backup-directory name
ScanNames == {DefaultBackupDirName, "bk", "sub"}

FindPdfs ==
    /\ scan.pc = "find"
    /\ scan' = [scan EXCEPT !.pdf_files = find_pdfs(<<>>, scan.tree, scan.backup_dir_name),
                            !.pc = "found"]
    /\ UNCHANGED <<pwVars, fsVars, mode, passwords, iterRaises, runs, batch, conc>>
    /\ UNCHANGED <<loopVars, pc, result, raised, histVars>>

InitScan ==
    /\ pwIn = NoPwIn
    /\ pwOut = None
    /\ file = Missing
    /\ bdir = "absent"
    /\ parentW = TRUE
    /\ bdirW = FALSE
    /\ backup = Missing
    /\ probe = FALSE
    /\ tmp = Missing
    /\ strays = 0
    /\ mode = "scan"
    /\ passwords = <<>>
    /\ iterRaises = FALSE
    /\ runs = 1
    /\ batch = NoBatch
    /\ conc = NoConc
    /\ \E t \in Trees, n \in ScanNames :
        scan = [pc |-> "find", tree |-> t, backup_dir_name |-> n, backup_root |-> None,
                pdf_files |-> <<>>, handed |-> <<>>, exit_code |-> None]
    /\ pc = "done"
    /\ newData = Missing
    /\ InitLocals

SpecScan == InitScan /\ [][FindPdfs]_vars

NextCli ==
    \/ MainScan
    \/ MainResolveBackupRoot
    \/ MainProcess

SpecCli == InitCli /\ [][NextCli]_vars

(***************************************************************************)
(* Two workers running unlock_file on two files of one directory           *)
(* (unlocker.py 69-139 over io_utils.py), one step of one worker at a time *)
(***************************************************************************)
Workers == {1, 2}
Peer(w) == 3 - w

\* A file name is the tuple of its parts, so that "name + suffix" is Append.
\* backup_path.with_name(backup_path.name + ".tmp_test")
test_path(name) == Append(name, ".tmp_test")

\* the names the two files are drawn from, and the entries the backup
\* directory can then hold (io_utils.py: backup_dir / src.name, and the probe)
WorkerNames == { <<"a.pdf">>, <<"b.pdf">>, <<"a.pdf", ".tmp_test">> }
BackupDirEntries == WorkerNames \cup { test_path(n) : n \in WorkerNames }

\* the credential sequences both workers are given
WorkerSeqs ==
    { <<>>,
      << <<<<"a">>, "single">> >>,
      << <<<<"b">>, "dictionary">>, <<<<"a">>, "single">> >> }

WorkerFiles == {Missing, Plain, Corrupt, Enc(<<"a">>)}

Worker(w) == conc.w[w]
AllReturned == conc.n = 2 /\ \A w \in Workers : Worker(w).pc = "done"

\* worker w goes on to label l / returns r
WGoto(w, l) == [Worker(w) EXCEPT !.pc = l]
WReturn(w, r) == [Worker(w) EXCEPT !.pc = "done", !.result = r]
WBackupFailed(w, op) == WReturn(w, ResFailed("Failed to create backup", op))

\* everything but the shared directory state and the workers
workerFrame == <<pwVars, file, parentW, backup, probe, tmp, strays, mode, passwords,
                 iterRaises, runs, batch, scan, pc, loopVars, result, raised, histVars>>

\* unlock_file 83-94: is_pdf_encrypted(filepath)
WClassify(w) ==
    /\ conc.n = 2
    /\ Worker(w).pc = "classify"
    /\ LET o == PdfOpen(conc.files[Worker(w).name], <<>>) IN
        conc' = [conc EXCEPT !.w[w] =
                    IF is_pdf_encrypted(o) THEN WGoto(w, "v_mkdir")
                    ELSE WReturn(w, ResUnchanged)]
    /\ UNCHANGED <<bdir, bdirW, workerFrame>>

\* Mutant of WEnsureBackup: backup_dir.mkdir() without exist_ok
WEnsureBackupExclusive == 
    IF bdir = "absent" /\ parentW THEN [ok |-> TRUE, bdir |-> "dir", bdirW |-> TRUE]
    ELSE [ok |-> FALSE, bdir |-> bdir, bdirW |-> bdirW]

\* ensure_backup as one worker calls it on the shared directory: os.mkdir is
\* one system call, and on "already exists" is_dir() is asked of an entry that
\* no worker ever removes
WEnsureBackup == Mkdir(bdir, parentW, bdirW)

\* validate_backup_path: ensure_backup(src, backup_dir_name)
WValidateMkdir(w) ==
    /\ conc.n = 2
    /\ Worker(w).pc = "v_mkdir"
    /\ LET m == WEnsureBackup IN
        /\ bdir' = m.bdir
        /\ bdirW' = m.bdirW
        /\ conc' = [conc EXCEPT !.w[w] =
                        IF m.ok THEN WGoto(w, "v_touch") ELSE WBackupFailed(w, "mkdir")]
    /\ UNCHANGED workerFrame

\* validate_backup_path: test_path.touch() creates an empty file, or leaves
\* the content of an existing one alone
WValidateTouch(w) ==
    /\ conc.n = 2
    /\ Worker(w).pc = "v_touch"
    /\ LET p == test_path(Worker(w).name) IN
        conc' = IF bdirW
                THEN [conc EXCEPT !.w[w] = WGoto(w, "v_unlink"),
                                  !.entries[p] = IF @ = Missing THEN Empty ELSE @]
                ELSE [conc EXCEPT !.w[w] = WBackupFailed(w, "touch")]
    /\ UNCHANGED <<bdir, bdirW, workerFrame>>

\* validate_backup_path: test_path.unlink()
WValidateUnlink(w) ==
    /\ conc.n = 2
    /\ Worker(w).pc = "v_unlink"
    /\ LET p == test_path(Worker(w).name) IN
        conc' = IF conc.entries[p] # Missing
                THEN [conc EXCEPT !.w[w] = WGoto(w, "c_copy"), !.entries[p] = Missing]
                ELSE [conc EXCEPT !.w[w] = WBackupFailed(w, "unlink")]
    /\ UNCHANGED <<bdir, bdirW, workerFrame>>

\* copy_backup: ensure_backup, then shutil.copy2(src, backup_dir / src.name)
WCopyBackup(w) ==
    /\ conc.n = 2
    /\ Worker(w).pc = "c_copy"
    /\ LET m == WEnsureBackup
           name == Worker(w).name
       IN
        /\ bdir' = m.bdir
        /\ bdirW' = m.bdirW
        /\ conc' = IF ~m.ok
                   THEN [conc EXCEPT !.w[w] = WBackupFailed(w, "mkdir")]
                   ELSE IF conc.files[name] = Missing
                   THEN [conc EXCEPT !.w[w] = WBackupFailed(w, "copy")]
                   ELSE [conc EXCEPT !.w[w] = WGoto(w, "loop"),
                                     !.entries[name] = conc.files[name]]
    /\ UNCHANGED workerFrame

\* unlock_file 111-139: the next candidate is drawn and the file opened with
\* it, or the sequence has ended
WTrial(w) ==
    /\ conc.n = 2
    /\ Worker(w).pc = "loop"
    /\ LET me == Worker(w)
           c == conc.files[me.name]
       IN
        conc' = [conc EXCEPT !.w[w] =
            IF me.drawn = Len(passwords)
            THEN WReturn(w, ResFailed("All passwords failed", "none"))
            ELSE LET cand == passwords[me.drawn + 1]
                     o == PdfOpen(c, cand[1])
                     drew == [me EXCEPT !.drawn = @ + 1]
                 IN IF o = "password" THEN drew
                    ELSE IF o = "error"
                    THEN [drew EXCEPT !.pc = "done",
                            !.result = ResFailed("Error processing PDF with password", "open")]
                    ELSE [drew EXCEPT !.pc = "aw_create", !.newData = Save(c)]]
    /\ UNCHANGED <<bdir, bdirW, workerFrame>>

\* atomic_write: NamedTemporaryFile(dir=filepath.parent, delete=False), a
\* name no existing entry of the directory has (it is created exclusively)
WAwCreate(w) ==
    /\ conc.n = 2
    /\ Worker(w).pc = "aw_create"
    /\ conc' = [conc EXCEPT !.w[w] =
                    IF parentW THEN [@ EXCEPT !.pc = "aw_write", !.tmp = Empty]
                    ELSE WReturn(w, ResFailed("Error processing PDF with password", "tmpfile"))]
    /\ UNCHANGED <<bdir, bdirW, workerFrame>>

\* pdf.save(tmp_file), flush, fsync: all on the worker's own open file
WAwWrite(w) ==
    /\ conc.n = 2
    /\ Worker(w).pc = "aw_write"
    /\ conc' = [conc EXCEPT !.w[w] = [@ EXCEPT !.pc = "aw_replace", !.tmp = Worker(w).newData]]
    /\ UNCHANGED <<bdir, bdirW, workerFrame>>

\* os.replace(temp_path, filepath), then "return UnlockResult(UNLOCKED, source)"
WAwReplace(w) ==
    /\ conc.n = 2
    /\ Worker(w).pc = "aw_replace"
    /\ LET me == Worker(w) IN
        conc' = [conc EXCEPT !.files[me.name] = me.tmp,
                             !.w[w] = [me EXCEPT !.pc = "done", !.tmp = Missing,
                                         !.result = ResUnlocked(passwords[me.drawn][2])]]
    /\ UNCHANGED <<bdir, bdirW, workerFrame>>

WorkerStep(w) ==
    \/ WClassify(w)
    \/ WValidateMkdir(w)
    \/ WValidateTouch(w)
    \/ WValidateUnlink(w)
    \/ WCopyBackup(w)
    \/ WTrial(w)
    \/ WAwCreate(w)
    \/ WAwWrite(w)
    \/ WAwReplace(w)

NextWorkers == \E w \in Workers : WorkerStep(w)

NewWorker(name) ==
    [pc |-> "classify", name |-> name, drawn |-> 0, newData |-> Missing,
     tmp |-> Missing, result |-> None]

InitWorkers ==
    /\ pwIn = NoPwIn
    /\ pwOut = None
    /\ file = Missing
    /\ bdir \in {"absent", "dir", "notdir"}
    /\ parentW \in BOOLEAN
    /\ bdirW \in (IF bdir = "absent" THEN {FALSE} ELSE BOOLEAN)
    /\ backup = Missing
    /\ probe = FALSE
    /\ tmp = Missing
    /\ strays = 0
    /\ mode = "workers"
    /\ passwords \in WorkerSeqs
    /\ iterRaises = FALSE
    /\ runs = 1
    /\ batch = NoBatch
    /\ scan = NoScan
    /\ \E n1 \in WorkerNames, c1 \in WorkerFiles, c2 \in WorkerFiles :
      \E n2 \in WorkerNames \ {n1} :
        conc = [n |-> 2,
                files |-> [n \in WorkerNames |->
                              IF n = n1 THEN c1 ELSE IF n = n2 THEN c2 ELSE Missing],
                files0 |-> [n \in WorkerNames |->
                              IF n = n1 THEN c1 ELSE IF n = n2 THEN c2 ELSE Missing],
                entries |-> [p \in BackupDirEntries |-> Missing],
                w |-> [w \in Workers |-> NewWorker(IF w = 1 THEN n1 ELSE n2)]]
    /\ pc = "done"
    /\ newData = Missing
    /\ InitLocals

SpecWorkers == InitWorkers /\ [][NextWorkers]_vars

(***************************************************************************)
(* Properties                                                              *)
(***************************************************************************)
BackupOps == {"mkdir", "touch", "unlink", "copy"}

\* the backup directory, backup file, probe file and temporary files are as
\* they were when the invocation started
NoBackupArtifacts ==
    /\ bdir = bdir0
    /\ backup = backup0
    /\ probe = fs0.probe
    /\ tmp = Missing
    /\ strays = fs0.strays

\* C1: in unlock_file, whenever the content at the working path differs from
\* its content at the start of the invocation (or an os.replace over it has
\* completed), the backup file exists in the backup directory and holds the
\* start-of-invocation bytes.
C1_BackupBeforeMutation ==
    (mode = "unlock" /\ (file # file0 \/ replaced > 0))
        => (bdir = "dir" /\ backup # Missing /\ backup = file0)

C1_Witness ==
    /\ mode = "unlock"
    /\ file # file0
    /\ replaced = 1
    /\ bdir0 = "absent"
    /\ backup = file0

\* C2: when an operation of the backup step of unlock_file raises (creating the
\* backup directory, the writability probe, or the copy), the invocation has
\* returned FAILED with the backup-failure cause, no credential was drawn or
\* tried, and the working file is unmodified.
C2_BackupFailureStopsFile ==
    (mode = "unlock" /\ raised \in BackupOps)
        => /\ classified # "ok"
           /\ Returned
           /\ Status = "FAILED"
           /\ ErrorOf = <<"Failed to create backup", raised>>
           /\ drawn = 0
           /\ tried = <<>>
           /\ file = file0
           /\ replaced = 0

C2_Witness ==
    /\ mode = "unlock"
    /\ raised = "copy"
    /\ Returned
    /\ file0 = Enc(<<"a">>)
    /\ passwords # <<>>
    /\ passwords[1][1] = <<"a">>

\* C3: in unlock_file and try_unlock_dry_run, once the file has opened without a
\* credential the invocation has returned UNCHANGED with method_used
\* "already_unlocked", whatever the credential sequence; no credential was
\* drawn or tried, no backup directory, backup file, probe or temporary file
\* was created, and the file is unmodified.
C3_AlreadyUnlockedUnchanged ==
    (mode \in {"unlock", "dry"} /\ classified = "ok")
        => /\ result = ResUnchanged
           /\ pc = "done"
           /\ drawn = 0
           /\ tried = <<>>
           /\ file = file0
           /\ replaced = 0
           /\ NoBackupArtifacts

C3_Witness ==
    /\ mode = "unlock"
    /\ classified = "ok"
    /\ Status = "UNCHANGED"
    /\ Len(passwords) > 1
    /\ bdir = "absent"

\* ---- credential sequencer ----
Sources == {"single", "dictionary", "environment", "empty"}

\* priority of a source: 1 is tried first
Rank(source) ==
    CASE source = "single" -> 1
      [] source = "dictionary" -> 2
      [] source = "environment" -> 3
      [] source = "empty" -> 4

Range(f) == { f[i] : i \in DOMAIN f }

\* the entries of the wordlist given to iter_passwords, in file order
DictEntries == IF pwIn.dict # None THEN iter_from_dictionary(pwIn.dict[1]) ELSE <<>>

\* the secrets each source supplies for the arguments pwIn; an unset or empty
\* environment value supplies none
SuppliedBy(source) ==
    CASE source = "single" -> (IF pwIn.single # None THEN {pwIn.single[1]} ELSE {})
      [] source = "dictionary" -> Range(DictEntries)
      [] source = "environment" ->
            (IF pwIn.env # None /\ pwIn.env[1] # <<>> THEN {pwIn.env[1]} ELSE {})
      [] source = "empty" -> (IF pwIn.try_empty THEN {<<>>} ELSE {})

\* position of the first occurrence of x in sequence q
FirstPos(q, x) == CHOOSE i \in 1..Len(q) : q[i] = x /\ \A j \in 1..(i - 1) : q[j] # x

\* C4: for every combination of (single, dictionary contents, environment
\* value, try_empty) the sequence of iter_passwords lists single before
\* dictionary before environment before empty entries, keeps dictionary
\* entries in file order, holds no secret twice, holds every supplied secret,
\* and gives each secret the origin of the highest-priority source supplying it.
C4_PriorityOrderNoDuplicates ==
    pwOut # None =>
        LET out == pwOut[1] IN
        /\ \A i, j \in 1..Len(out) :
            i < j => /\ Rank(out[i][2]) <= Rank(out[j][2])
                     /\ out[i][1] # out[j][1]
                     /\ (out[i][2] = "dictionary" /\ out[j][2] = "dictionary")
                            => FirstPos(DictEntries, out[i][1]) < FirstPos(DictEntries, out[j][1])
        /\ \A i \in 1..Len(out) :
            /\ out[i][2] \in Sources
            /\ out[i][1] \in SuppliedBy(out[i][2])
            /\ \A s \in Sources : Rank(s) < Rank(out[i][2]) => out[i][1] \notin SuppliedBy(s)
        /\ \A s \in Sources : \A p \in SuppliedBy(s) : \E i \in 1..Len(out) : out[i][1] = p

C4_Witness ==
    /\ pwOut # None
    /\ pwIn.single = Some(<<"a">>)
    /\ pwIn.dict = Some(<< <<"b", "\n">>, <<"a", "\n">> >>)
    /\ pwIn.env = Some(<<"a">>)
    /\ pwIn.try_empty
    /\ pwOut[1] = << <<<<"a">>, "single">>, <<<<"b">>, "dictionary">>, <<<<>>, "empty">> >>

\* ---- atomic_write ----
ProducerRaised == {"producer", "producer_after_data"}

\* C5: if the producer inside atomic_write raises, after writing any amount of
\* data, then once atomic_write has exited the target path holds exactly what
\* it held before (or is still missing) and the directory holds no temporary
\* file of that call.
C5_ProducerFailureLeavesTarget ==
    raised \in ProducerRaised
        => /\ pc # "aw_ok"
           /\ file = file0
           /\ replaced = 0
           /\ tmp = Missing
           /\ strays = fs0.strays

C5_Witness ==
    /\ mode = "aw"
    /\ raised = "producer_after_data"
    /\ pc = "aw_exc"
    /\ file0 = Enc(<<"a">>)
    /\ newData = Save(Enc(<<"a">>))
    /\ file = file0

\* C6: at every step of atomic_write the target path holds either the complete
\* old content or the complete new content, and the only step that changes
\* the target path is the one os.replace, of the completely written
\* temporary file.
C6_TargetOldOrNew ==
    /\ [](/\ file \in {file0, newData}
          /\ file # file0 => replaced = 1)
    /\ [][file' # file =>
            /\ pc = "aw_replace"
            /\ replaced = 0
            /\ replaced' = 1
            /\ tmp = newData
            /\ file' = newData]_vars

C6_Witness ==
    /\ mode = "aw"
    /\ pc = "aw_write"
    /\ tmp = Partial
    /\ file0 = Plain
    /\ file = file0
    /\ newData # file0

\* ---- trial loop ----
\* the file at the start of the invocation is protected: it does not open
\* without a credential and reports the wrong-password signal
Protected(c) == PdfOpen(c, <<>>) = "password"

AllRejected ==
    /\ \A i \in 1..Len(passwords) : PdfOpen(file0, passwords[i][1]) = "password"
    /\ \A i \in 1..Len(tried) : tried[i][2] # "error"

ExhaustedOutcome ==
    /\ Status = "FAILED"
    /\ ErrorOf = <<"All passwords failed", "none">>
    /\ drawn = Len(passwords)
    /\ Len(tried) = Len(passwords)
    /\ \A i \in 1..Len(passwords) : tried[i] = <<passwords[i][1], "password">>
    /\ file = file0
    /\ replaced = 0
    /\ bdir = "dir"
    /\ backup # Missing
    /\ backup = file0

\* C8 as claimed: for a protected file and a sequence in which every candidate
\* is rejected as a wrong password (the empty sequence included), unlock_file
\* returns FAILED with the exhaustion cause, every candidate was tried once in
\* order, the working file is unmodified and the backup of the file exists.
C8_Original ==
    (mode = "unlock" /\ Returned /\ Protected(file0) /\ AllRejected) => ExhaustedOutcome

\* C8 as amended: the same, for a file whose backup step succeeds.
C8_ExhaustionAfterBackup ==
    (mode = "unlock" /\ Returned /\ Protected(file0) /\ AllRejected /\ raised \notin BackupOps)
        => ExhaustedOutcome

C8_Witness ==
    /\ mode = "unlock"
    /\ Returned
    /\ file0 = Enc(<<"b">>)
    /\ AllRejected
    /\ raised = "none"
    /\ Len(passwords) = 2
    /\ Len(tried) = 2

\* C9: in unlock_file and try_unlock_dry_run the candidates are tried in
\* sequence order, only a wrong-password rejection moves on to the next
\* candidate and it always does, the method_used of an UNLOCKED outcome is the
\* origin of the first candidate of the sequence that opens the file, and no
\* candidate after that one is drawn or tried.
C9_TrialOrder ==
    mode \in {"unlock", "dry"} =>
        /\ drawn = Len(tried)
        /\ drawn <= Len(passwords)
        /\ \A i \in 1..Len(tried) : tried[i][1] = passwords[i][1]
        /\ \A i \in 1..(Len(tried) - 1) : tried[i][2] = "password"
        /\ (tried # <<>> /\ tried[Len(tried)][2] = "password")
              => \/ pc = "loop"
                 \/ drawn = Len(passwords) /\ ErrorOf = <<"All passwords failed", "none">>
        /\ Status = "UNLOCKED"
              => /\ drawn >= 1
                 /\ tried[drawn][2] = "ok"
                 /\ PdfOpen(file0, passwords[drawn][1]) = "ok"
                 /\ \A j \in 1..(drawn - 1) : PdfOpen(file0, passwords[j][1]) # "ok"
                 /\ result[1].method_used = passwords[drawn][2]

C9_Witness ==
    /\ mode = "unlock"
    /\ Status = "UNLOCKED"
    /\ drawn = 2
    /\ Len(passwords) = 3
    /\ result[1].method_used = "dictionary"

TrialFaults == {"open", "tmpfile", "producer", "producer_after_data", "flush", "fsync", "replace"}

\* C10: when opening the file with a candidate, or saving through
\* atomic_write, fails with an error other than wrong-password, the outcome is
\* FAILED carrying that cause, no further candidate is drawn or tried, and the
\* working file keeps its pre-invocation content.
C10_TrialErrorIsTerminal ==
    (mode \in {"unlock", "dry"} /\ raised \in TrialFaults)
        => /\ pc \in {"aw_exc", "done"}
           /\ Returned =>
                /\ Status = "FAILED"
                /\ ErrorOf = <<"Error processing PDF with password", raised>>
           /\ drawn = Len(tried)
           /\ tried[drawn][2] = (IF raised = "open" THEN "error" ELSE "ok")
           /\ file = file0
           /\ replaced = 0

C10_Witness ==
    /\ mode = "unlock"
    /\ raised = "replace"
    /\ Status = "FAILED"
    /\ drawn = 1
    /\ Len(passwords) = 3
    /\ file = file0

\* ---- process_pdfs ----
\* C11: whenever producing the next candidate of the credential sequence
\* raises (the wordlist cannot be read or decoded part-way), unlock_file and
\* try_unlock_dry_run have returned an UnlockResult; the exception does not
\* leave the invocation, so process_pdfs is not cut short.
C11_IteratorErrorIsReturned ==
    (mode \in {"unlock", "dry"} /\ raised = "iterator")
        => /\ Returned
           /\ pc # "escaped"

\* process_pdfs is over: it returned, or an exception left it
ProcessOver == pc \in {"returned", "escaped", "exited", "crashed"}

\* C12: process_pdfs records the outcomes in list order, one per file handled,
\* its counters always add up to the number of outcomes, and when it is over
\* every file of the list has exactly one outcome and
\* processed = unlocked + failed + unchanged = number of input files.
C12_OneOutcomePerFile ==
    batch.n > 0 =>
        /\ \A i \in 1..Len(batch.outcomes) : batch.outcomes[i][1] = i
        /\ batch.processed = Len(batch.outcomes)
        /\ batch.processed = batch.unlocked + batch.failed + batch.unchanged
        /\ ProcessOver => /\ Len(batch.outcomes) = batch.n
                          /\ batch.processed = batch.n

\* ---- simulation mode ----
SaveFaults == {"tmpfile", "producer", "producer_after_data", "flush", "fsync", "replace"}

Min(a, b) == IF a <= b THEN a ELSE b

\* the document capability answered this invocation as it answered the
\* previous one: the same classification outcome, and the same outcome for
\* every candidate both invocations tried
SameAnswers ==
    /\ classified = prev.classified
    /\ \A i \in 1..Min(Len(tried), Len(prev.tried)) : tried[i] = prev.tried[i]

\* C13: when try_unlock_dry_run and then unlock_file are run on the same file
\* state with the same credential sequence and the same answers of the
\* document capability, and the backup step and the save step of unlock_file
\* succeed, unlock_file returns the status and the method_used that
\* try_unlock_dry_run returned.
C13_DryRunAgrees ==
    ( /\ mode = "unlock"
      /\ prev.mode = "dry"
      /\ Returned
      /\ fs0 = prev.fs0
      /\ raised \notin (BackupOps \cup SaveFaults)
      /\ SameAnswers )
        => /\ Status = prev.status
           /\ result[1].method_used = prev.method_used

C13_Witness ==
    /\ mode = "unlock"
    /\ prev.mode = "dry"
    /\ fs0 = prev.fs0
    /\ SameAnswers
    /\ Status = "UNLOCKED"
    /\ prev.status = "UNLOCKED"
    /\ drawn = 2
    /\ bdir0 = "absent"
    /\ file0 = Enc(<<"b">>)

\* the backup step of unlock_file cannot succeed in the filesystem state the
\* invocation started in: the backup directory cannot be made, the probe
\* cannot be created in it, or there is no source file to copy
MutatingBackupFails ==
    LET m == Mkdir(bdir0, parentW, bdirW) IN
    \/ ~m.ok
    \/ ~m.bdirW
    \/ file0 = Missing

\* C14: when try_unlock_dry_run gets past classification in a filesystem
\* state in which the backup step of unlock_file would fail (the backup path
\* is not a directory, is not writable or cannot be created, or the source is
\* missing), it returns FAILED with the backup-failure cause.
C14_DryRunDetectsBackupFailure ==
    (mode = "dry" /\ Returned /\ is_pdf_encrypted(classified) /\ MutatingBackupFails)
        => /\ Status = "FAILED"
           /\ ErrorOf[1] = "Failed to create backup"

\* C15: at every step of try_unlock_dry_run, on every path, the filesystem is
\* as it was when the invocation started: no backup directory, backup file,
\* probe file or temporary file was created, the working file holds the same
\* bytes, and no os.replace happened.
C15_DryRunChangesNothing ==
    mode = "dry" =>
        /\ Snapshot = fs0
        /\ file = file0
        /\ NoBackupArtifacts
        /\ replaced = 0

C15_Witness ==
    /\ mode = "dry"
    /\ Status = "UNLOCKED"
    /\ file0 = Enc(<<"a">>)
    /\ bdir0 = "absent"
    /\ parentW
    /\ drawn = 2

\* ---- runs after runs over the same file ----
\* C16: once the backup file holds a complete copy of the original bytes
\* when an invocation of unlock_file starts (an earlier invocation wrote it),
\* no step of that invocation changes the bytes of the backup file.
C16_BackupNeverOverwritten ==
    [][(mode = "unlock" /\ backup0 # Missing /\ backup0 = orig) => backup' = backup]_vars

\* C17: in every state of every run over a file that was protected before the
\* first run, the original protected bytes are at the working path or in the
\* backup file.
C17_OriginalBytesKept ==
    (mode \in {"unlock", "dry"} /\ Protected(orig))
        => (file = orig \/ backup = orig)

\* C18: in an invocation of unlock_file that follows one which returned
\* UNLOCKED for the same file, the working file and the backup file keep the
\* bytes they had when the invocation started, and the outcome is UNCHANGED.
C18_RerunIsUnchanged ==
    (mode = "unlock" /\ prev.mode = "unlock" /\ prev.status = "UNLOCKED")
        => /\ file = file0
           /\ backup = backup0
           /\ Returned => result = ResUnchanged

\* ---- process_pdfs and the password factory ----
\* C19: in process_pdfs the factory has been called once for each file
\* started, the sequence the current file is tried against is the complete
\* sequence of the factory, and the candidates tried on the current file are
\* the first candidates of that sequence, in order from the first one,
\* whatever earlier files consumed.
C19_FreshSequencePerFile ==
    batch.n > 0 =>
        /\ batch.calls = batch.current
        /\ passwords = FactorySequence(pwIn, iterRaises)
        /\ drawn = Len(tried)
        /\ drawn <= Len(passwords)
        /\ \A i \in 1..Len(tried) : tried[i][1] = passwords[i][1]

C19_Witness ==
    /\ batch.current = 2
    /\ batch.outcomes[1][2] = "UNLOCKED"
    /\ Len(passwords) = 3
    /\ Status = "UNLOCKED"
    /\ drawn = 2
    /\ tried[1] = <<passwords[1][1], "password">>

\* ---- main and the scanner ----
\* the path lies inside a directory called name
InsideDirNamed(path, name) == \E j \in 1..(Len(path) - 1) : path[j] = name

\* C20: whatever backup-directory name is configured (the default, a value of
\* --backup-dir-name, or the name resolved from --backup-root), no file that
\* main hands to process_pdfs lies inside a directory with that name.
C20_BackupDirsNeverHanded ==
    scan.pc = "handed" =>
        \A i \in 1..Len(scan.handed) :
            ~InsideDirNamed(scan.handed[i], scan.backup_dir_name)

\* ---- exit status ----
\* some file of the run reached FAILED
SomeFileFailed == \E i \in 1..Len(batch.outcomes) : batch.outcomes[i][2] = "FAILED"

\* C21: when main was given at least one file and the process has ended, its
\* exit status is 0 if no file reached FAILED and 1 if some file did.
C21_ExitStatusTellsFailure ==
    (batch.n > 0 /\ batch.exit_code # None)
        => batch.exit_code = Some(IF SomeFileFailed THEN 1 ELSE 0)

\* the exit statuses of a run that processed files (cli.py 155)
ExitAllSucceeded == 0
ExitSomeFailed == 1

\* C22: when the scan finds no file, main exits with a status that is neither
\* the all-succeeded status nor the some-failed status.
C22_NothingToDoIsDistinct ==
    scan.pc = "exit"
        => /\ scan.exit_code # None
           /\ scan.exit_code[1] \notin {ExitAllSucceeded, ExitSomeFailed}

\* ---- the scanner ----
RECURSIVE Entries(_, _)
\* every entry below the directory at path root with listing items, as
\* [path, kind]
Entries(root, items) ==
    UNION { {[path |-> Append(root, items[i].name), kind |-> items[i].kind]}
            \cup (IF items[i].kind = "dir"
                  THEN Entries(Append(root, items[i].name), items[i].items)
                  ELSE {}) : i \in 1..Len(items) }

\* the names whose extension is ".pdf" in some letter case
PdfNames == {"a.pdf", "b.PDF"}

\* C23: find_pdfs(root, name) yields exactly the regular files under root
\* whose extension is ".pdf" in any letter case and whose path has no
\* directory component equal to name, each of them once.
C23_ScannerYieldsExactly ==
    scan.pc = "found" =>
        LET out == scan.pdf_files IN
        /\ Range(out) = { e.path : e \in
                            { x \in Entries(<<>>, scan.tree) :
                                /\ x.kind = "file"
                                /\ x.path[Len(x.path)] \in PdfNames
                                /\ ~InsideDirNamed(x.path, scan.backup_dir_name) } }
        /\ \A i, j \in 1..Len(out) : i # j => out[i] # out[j]

C23_Witness ==
    /\ scan.pc = "found"
    /\ scan.backup_dir_name = "bk"
    /\ scan.tree = << Dir("sub", << Dir("bk", << File("a.pdf") >>) >>), File("b.PDF") >>
    /\ scan.pdf_files = << <<"b.PDF">> >>

\* ---- classification ----
ValidationOps == BackupOps \cup {"validate"}

C25_NoTemporaryFileAfterFailure ==
    (pc = "aw_exc" /\ raised # "none") => tmp = Missing

\* ---- corrupt files ----
\* a corrupt, unprotected file processed with a non-empty sequence, past the
\* backup step
CorruptFileTried ==
    /\ mode \in {"unlock", "dry"}
    /\ file0 = Corrupt
    /\ passwords # <<>>
    /\ Returned
    /\ raised \notin ValidationOps

\* C26 as claimed: a corrupt, unprotected file processed with a non-empty
\* credential sequence enters the trial loop and its FAILED outcome carries
\* the exhaustion cause.
C26_Original ==
    CorruptFileTried
        => /\ Status = "FAILED"
           /\ ErrorOf = <<"All passwords failed", "none">>

\* C26 as amended: such a file enters the trial loop and its FAILED outcome
\* carries the processing-error cause of the open with the first candidate;
\* no further candidate is tried and the file is unmodified.
C26_CorruptIsProcessingError ==
    CorruptFileTried
        => /\ classified = "error"
           /\ Status = "FAILED"
           /\ ErrorOf = <<"Error processing PDF with password", "open">>
           /\ tried = << <<passwords[1][1], "error">> >>
           /\ drawn = 1
           /\ file = file0

C26_Witness ==
    /\ CorruptFileTried
    /\ mode = "unlock"
    /\ Len(passwords) = 3
    /\ backup = Corrupt
    /\ raised = "open"

\* ---- the per-file state machine ----
\* the state of the per-file machine the invocation is in
Phase ==
    CASE pc = "classify" -> "Classifying"
      [] pc \in {"v_mkdir", "v_touch", "v_unlink", "c_copy", "dry_validate"} -> "BackingUp"
      [] pc = "done" /\ Status = "UNCHANGED" -> "Unchanged"
      [] pc = "done" /\ Status = "UNLOCKED" -> "Unlocked"
      [] pc = "done" /\ Status = "FAILED" -> "Failed"
      [] OTHER -> "TrialLoop"

PhaseOrder ==
    { <<"Classifying", "Unchanged">>, <<"Classifying", "BackingUp">>,
      <<"BackingUp", "BackingUp">>, <<"BackingUp", "Failed">>, <<"BackingUp", "TrialLoop">>,
      <<"TrialLoop", "TrialLoop">>, <<"TrialLoop", "Unlocked">>, <<"TrialLoop", "Failed">> }

\* C27: an execution of unlock_file starts in Classifying and every step of it
\* follows Classifying -> (Unchanged | BackingUp) -> (Failed | TrialLoop) ->
\* (Unlocked | Failed); the backup step is entered only after classification
\* found the file protected, the trial loop only after the backup step
\* succeeded, and from Unchanged, Unlocked or Failed the execution takes no
\* further step.
C27_StateMachineOrder ==
    /\ [](mode = "unlock" =>
            /\ classified = "none" <=> Phase = "Classifying"
            /\ Phase = "Unchanged" <=> classified = "ok"
            /\ Phase = "TrialLoop" =>
                  /\ raised \notin BackupOps
                  /\ bdir = "dir"
                  /\ backup # Missing
                  /\ probe = FALSE
            /\ Phase \in {"Classifying", "BackingUp"} =>
                  /\ drawn = 0
                  /\ tried = <<>>
                  /\ file = file0)
    /\ [][(mode = "unlock" /\ runs' = runs) =>
            /\ pc # "done"
            /\ <<Phase, Phase'>> \in PhaseOrder]_vars

C27_Witness ==
    /\ mode = "unlock"
    /\ Phase = "Unlocked"
    /\ classified = "password"
    /\ bdir0 = "dir"
    /\ replaced = 1
    /\ drawn = 1
    /\ runs = 1

\* ---- termination ----
\* how far the invocation has got: it grows with every step
StepMeasure ==
    LET base == 20 * drawn IN
    CASE pc = "classify" -> 0
      [] pc \in {"v_mkdir", "dry_validate"} -> 1
      [] pc = "v_touch" -> 2
      [] pc = "v_unlink" -> 3
      [] pc = "c_copy" -> 4
      [] pc = "loop" -> base + 5
      [] pc = "aw_create" -> base + 6
      [] pc = "aw_write" -> base + (IF tmp = Empty THEN 7 ELSE 8)
      [] pc = "aw_flush" -> base + 9
      [] pc = "aw_fsync" -> base + 10
      [] pc = "aw_replace" -> base + 11
      [] pc \in {"aw_ok", "aw_exc"} -> base + 12
      [] OTHER -> 20 * (Len(passwords) + 2)

BeforeRename == {"tmpfile", "producer", "producer_after_data", "flush", "fsync"}

\* C30: in atomic_write the temporary file exists only in a target directory
\* it could be created in; the rename over the target is a step taken after
\* the producer returned with all its data written, then flush, then fsync,
\* each without error; and once one of those steps has failed the target is
\* never renamed over.
C30_RenameAfterSync ==
    /\ []((tmp # Missing \/ replaced > 0) => parentW)
    /\ [](raised \in BeforeRename =>
            /\ pc = "aw_exc"
            /\ replaced = 0
            /\ file = file0)
    /\ [][replaced' # replaced =>
            /\ pc = "aw_replace"
            /\ raised = "none"
            /\ tmp = newData
            /\ file' = newData]_vars
    /\ [][(pc' = "aw_replace" /\ pc # "aw_replace") => (pc = "aw_fsync" /\ tmp = newData)]_vars
    /\ [][(pc' = "aw_fsync" /\ pc # "aw_fsync") => (pc = "aw_flush" /\ tmp = newData)]_vars
    /\ [][(pc' = "aw_flush" /\ pc # "aw_flush") => (pc = "aw_write" /\ tmp' = newData)]_vars

C30_Witness ==
    /\ mode = "aw"
    /\ pc = "aw_ok"
    /\ raised = "none"
    /\ replaced = 1
    /\ file0 = Enc(<<"a">>)
    /\ file = Save(Enc(<<"a">>))
    /\ tmp = Missing

\* ---- C29 ----
\* whether the backup directory was writable when the workers started (it
\* changes only by being created)
bdirW0 == IF fs0.bdir = "absent" THEN FALSE ELSE bdirW

\* index of the first candidate whose open does not answer "wrong password"
\* on content c, 0 when there is none
FirstSettling(c) ==
    LET I == { i \in 1..Len(passwords) : PdfOpen(c, passwords[i][1]) # "password" }
    IN IF I = {} THEN 0 ELSE CHOOSE i \in I : \A j \in I : i <= j

\* what unlock_file returns for content c, and the content it leaves at the
\* path, when it runs with no other worker from the directory state the two
\* workers started in
Sequential(c) ==
    LET m == Mkdir(fs0.bdir, parentW, bdirW0)
        k == FirstSettling(c)
    IN IF PdfOpen(c, <<>>) = "ok" THEN [result |-> ResUnchanged, file |-> c]
       ELSE IF ~m.ok THEN [result |-> ResFailed("Failed to create backup", "mkdir"), file |-> c]
       ELSE IF ~m.bdirW THEN [result |-> ResFailed("Failed to create backup", "touch"), file |-> c]
       ELSE IF c = Missing THEN [result |-> ResFailed("Failed to create backup", "copy"), file |-> c]
       ELSE IF k = 0 THEN [result |-> ResFailed("All passwords failed", "none"), file |-> c]
       ELSE IF PdfOpen(c, passwords[k][1]) = "error"
       THEN [result |-> ResFailed("Error processing PDF with password", "open"), file |-> c]
       ELSE IF ~parentW
       THEN [result |-> ResFailed("Error processing PDF with password", "tmpfile"), file |-> c]
       ELSE [result |-> ResUnlocked(passwords[k][2]), file |-> Save(c)]

\* when both workers have returned, each file has the outcome and the content
\* of a run of its worker alone, and no temporary file is left
OutcomesAsSequential ==
    AllReturned =>
        \A w \in Workers :
            LET me == Worker(w)
                s == Sequential(conc.files0[me.name])
            IN /\ me.result = s.result
               /\ conc.files[me.name] = s.file
               /\ me.tmp = Missing

\* a step of worker w leaves the other worker's file, backup, probe and
\* temporary file as they were
LeavesPeerAlone(w) ==
    LET other == Worker(Peer(w)) IN
        /\ conc'.w[Peer(w)] = other
        /\ conc'.files[other.name] = conc.files[other.name]
        /\ conc'.entries[other.name] = conc.entries[other.name]
        /\ conc'.entries[test_path(other.name)] = conc.entries[test_path(other.name)]

ScannerNamed == \A w \in Workers : Len(Worker(w).name) = 1

\* the independence of C29 for two files with such names
WorkersIndependentWhenScannerNamed ==
    /\ [](ScannerNamed => OutcomesAsSequential)
    /\ [][ScannerNamed => \A w \in Workers : conc'.w[w] # conc.w[w] => LeavesPeerAlone(w)]_vars

\* both workers found the backup directory absent, each made its backup in
\* it, and both files were unlocked
BothUnlockedAfterRace ==
    /\ AllReturned
    /\ ScannerNamed
    /\ fs0.bdir = "absent"
    /\ \A w \in Workers : Worker(w).result = ResUnlocked("single")

\* ---- C31 ----
\* C31: when unlock_file has returned UNLOCKED the working file was replaced
\* exactly once during the invocation, the replace having completed before
\* the return; when it has returned FAILED or UNCHANGED the working file was
\* replaced zero times.
C31_ReplacedOnceIffUnlocked ==
    (mode = "unlock" /\ Returned) =>
        /\ Status = "UNLOCKED" => replaced = 1 /\ tmp = Missing /\ file = newData
        /\ Status \in {"FAILED", "UNCHANGED"} => replaced = 0 /\ file = file0

\* a second invocation that unlocked the file after a first one had failed
C31_Witness ==
    /\ mode = "unlock"
    /\ runs = 2
    /\ prev.status = "FAILED"
    /\ Status = "UNLOCKED"
    /\ replaced = 1
    /\ file = Save(file0)

\* ---- C32 ----
\* C32: after unlock_file has returned, along any path, the probe file of
\* validate_backup_path and the temporary file of atomic_write are not among
\* the entries it has added: only the backup directory and the backup copy
\* may be new.
C32_OnlyBackupEntriesAdded ==
    (mode = "unlock" /\ Returned) =>
        /\ probe => fs0.probe
        /\ tmp = Missing
        /\ strays = fs0.strays

\* ---- C33 ----
FromDictionary(pair) == pair[2] = "dictionary"

\* the 'dictionary' candidates of a sequence, in order
DictionaryCandidates(seq) == SelectSeq(seq, FromDictionary)

\* the 'dictionary' candidates the sequencer takes from a given wordlist file
\* under the factory's other arguments
CandidatesOf(f) ==
    DictionaryCandidates(iter_passwords(pwIn.password, f, pwIn.env, pwIn.try_empty))

\* the single, environment and empty candidates of the factory's arguments,
\* in that order, a secret equal to an earlier one left out
WithoutWordlist ==
    LET s == pwIn.password
        v == pwIn.env
    IN (IF s # None THEN << <<s[1], "single">> >> ELSE <<>>)
       \o (IF v # None /\ v[1] # <<>> /\ v # s THEN << <<v[1], "environment">> >> ELSE <<>>)
       \o (IF pwIn.try_empty /\ s # Some(<<>>) THEN << <<<<>>, "empty">> >> ELSE <<>>)

WordlistGiven == pwIn.dictionary \in {Some("words.txt"), Some("/words.txt")}
ExistsAtScanRoot == pwIn.dictionary = Some("words.txt") /\ pwIn.at_root # None

\* C33: the factory uses the wordlist at the path as given when it exists,
\* otherwise the one at the same path under the scan root; when neither
\* exists it logs a warning and the sequence is the single, environment and
\* empty candidates in order with no 'dictionary' candidate.
C33_WordlistResolution ==
    (mode = "factory" /\ pwOut # None /\ WordlistGiven) =>
        LET out == pwOut[1] IN
            /\ pwIn.at_cwd # None =>
                /\ out.used = "given"
                /\ DictionaryCandidates(out.passwords) = CandidatesOf(pwIn.at_cwd)
            /\ (pwIn.at_cwd = None /\ ExistsAtScanRoot) =>
                /\ out.used = "scan_root"
                /\ DictionaryCandidates(out.passwords) = CandidatesOf(pwIn.at_root)
            /\ (pwIn.at_cwd = None /\ ~ExistsAtScanRoot) =>
                /\ out.log = "warning"
                /\ DictionaryCandidates(out.passwords) = <<>>
                /\ out.passwords = WithoutWordlist

\* no wordlist at either place, and all three other kinds produced
C33_Witness ==
    /\ mode = "factory"
    /\ pwOut # None
    /\ pwIn.dictionary = Some("words.txt")
    /\ pwIn.at_cwd = None
    /\ pwIn.at_root = None
    /\ pwOut[1].log = "warning"
    /\ Len(pwOut[1].passwords) = 3

\* ---- C34 ----
\* a raw line with only its trailing line terminators removed
WithoutTerminator(line) == rstrip(line, Terminators)

\* the line is empty or only whitespace, or its first non-space character
\* is the comment mark
BlankOrComment(line) ==
    \/ strip(WithoutTerminator(line)) = <<>>
    \/ startswith(lstrip(WithoutTerminator(line)), "#")

RECURSIVE LinesAsWritten(_)
\* the lines that are neither blank nor comments, terminator removed and
\* otherwise as written, in file order
LinesAsWritten(lines) ==
    IF lines = <<>> THEN <<>>
    ELSE IF BlankOrComment(Head(lines)) THEN LinesAsWritten(Tail(lines))
    ELSE <<WithoutTerminator(Head(lines))>> \o LinesAsWritten(Tail(lines))

NoRepeats(seq) == \A i, j \in 1..Len(seq) : seq[i] = seq[j] => i = j

\* C34: from a wordlist whose non-blank, non-comment lines are all different
\* (and no single secret given), the 'dictionary' candidates are those lines
\* in file order, each exactly as written but for its line terminator.
C34_LinesEmittedAsWritten ==
    (mode = "pw" /\ pwOut # None /\ pwIn.dict # None /\ pwIn.single = None
        /\ NoRepeats(LinesAsWritten(pwIn.dict[1]))) =>
        LET d == DictionaryCandidates(pwOut[1])
            w == LinesAsWritten(pwIn.dict[1])
        IN /\ Len(d) = Len(w)
           /\ \A i \in 1..Len(d) : d[i][1] = w[i]

\* ---- C35 ----
\* C35: when the classification call raises, unlock_file and
\* try_unlock_dry_run return FAILED with the cause "Error checking if PDF is
\* encrypted"; no backup or validation step has run, no credential has been
\* drawn or tried, and nothing on disk has changed.
C35_ClassificationRaiseIsFailed ==
    raised = "classify" =>
        /\ pc = "done"
        /\ Status = "FAILED"
        /\ ErrorOf = <<"Error checking if PDF is encrypted", "classify">>
        /\ classified = "none"
        /\ drawn = 0
        /\ tried = <<>>
        /\ Snapshot = fs0
        /\ bdirW = (fs0.bdir # "absent" /\ bdirW)

\* the classification of a protected file raised in a dry run with candidates
C35_Witness ==
    /\ raised = "classify"
    /\ mode = "dry"
    /\ file = Enc(<<"a">>)
    /\ passwords # <<>>
    /\ Status = "FAILED"

\* ---- C36 ----
EmptyPositions(seq) == { i \in 1..Len(seq) : seq[i][1] = <<>> }
PositionsFrom(seq, source) == { i \in 1..Len(seq) : seq[i][2] = source }

\* what the sequence owes to the environment value: nothing when it is unset
\* or empty; otherwise, when no single or dictionary candidate has the value,
\* one 'environment' candidate after all of those
EnvironmentPlaced(seq) ==
    LET v == pwIn.env
        E == PositionsFrom(seq, "environment")
    IN /\ (v = None \/ v = Some(<<>>)) => E = {}
       /\ \A i \in E :
            /\ seq[i][1] = v[1]
            /\ \A j \in PositionsFrom(seq, "single") \cup PositionsFrom(seq, "dictionary") : j < i
       /\ (v # None /\ v # Some(<<>>)
             /\ \A j \in PositionsFrom(seq, "single") \cup PositionsFrom(seq, "dictionary") :
                    seq[j][1] # v[1])
            => E # {}

\* C36 as stated: the empty secret appears at most once, only when try_empty
\* is true, always as the last element and with origin 'empty'; the
\* environment value is placed as above.
C36_Original ==
    (mode = "pw" /\ pwOut # None) =>
        LET seq == pwOut[1] IN
            /\ Cardinality(EmptyPositions(seq)) <= 1
            /\ \A i \in EmptyPositions(seq) :
                pwIn.try_empty /\ i = Len(seq) /\ seq[i][2] = "empty"
            /\ EnvironmentPlaced(seq)

\* C36: the empty secret appears at most once.  When the single secret is
\* not the empty string it appears only when try_empty is true, and then as
\* the last element with origin 'empty'; when the single secret is the empty
\* string it is the first element with origin 'single', whatever try_empty
\* is, and no 'empty' candidate is produced.  The environment value is placed
\* as above.
C36_EmptySecretPlacement ==
    (mode = "pw" /\ pwOut # None) =>
        LET seq == pwOut[1] IN
            /\ Cardinality(EmptyPositions(seq)) <= 1
            /\ pwIn.single # Some(<<>>) =>
                /\ \A i \in EmptyPositions(seq) :
                    pwIn.try_empty /\ i = Len(seq) /\ seq[i][2] = "empty"
                /\ pwIn.try_empty => EmptyPositions(seq) = {Len(seq)}
            /\ pwIn.single = Some(<<>>) =>
                /\ seq[1] = << <<>>, "single" >>
                /\ PositionsFrom(seq, "empty") = {}
            /\ EnvironmentPlaced(seq)

\* the empty string given as the single secret, with try_empty and an
\* environment value
C36_Witness ==
    /\ mode = "pw"
    /\ pwOut # None
    /\ pwIn.single = Some(<<>>)
    /\ pwIn.try_empty
    /\ pwIn.env = Some(<<"b">>)
    /\ pwOut[1] = << << <<>>, "single" >>, << <<"b">>, "environment" >> >>

====
